---- MODULE Spec2Model ----
(***************************************************************************)
(* Movie-Recommendation-System: the content-based recommender               *)
(* (src/src/content_based.py) and the user-based collaborative filter       *)
(* (src/src/collaborative_filtering.py) as a state machine.                 *)
(*                                                                         *)
(* Conventions.                                                            *)
(*  - A Python str that the code takes apart (the genres column) is a      *)
(*    tuple of one-character strings; a str that is only compared (a       *)
(*    title) is a TLA+ string.                                             *)
(*  - Row and column indices are 0-based, as in the source; a Python list  *)
(*    is a 1-based TLA+ sequence.                                          *)
(*  - A mean or a centered rating is an exact rational <<n, d>> in lowest  *)
(*    terms; float32/float64 rounding is not modelled.                     *)
(*  - A cosine similarity is a fixed-point integer in units of 1/SimScale, *)
(*    rounded towards zero; 1.0 is SimScale.                               *)
(*  - np.argsort is called with its default kind, which numpy documents as *)
(*    not stable: the order of equal keys is any order.  It is a function  *)
(*    all the same: called again on an equal array it returns the order    *)
(*    it returned before.                                                  *)
(*  - An assignment through a name changes the object the name is bound    *)
(*    to: each recommendation function is modelled with the in-place       *)
(*    writes it makes and the objects its names are bound to.              *)
(***************************************************************************)
EXTENDS Integers, Sequences, FiniteSets, TLC

VARIABLES
    movies,          \* movies_df: the catalog, a list of rows
    ratings,         \* ratings_df: the rating events, a list of rows
    built,           \* which artifacts the session has built
    sim_index,       \* fit_content_model's similarity matrix
    title_to_index,  \* fit_content_model's title -> row index dict
    cf_bundle,       \* fit_cf_model's bundle
    call,            \* the last call: its name, arguments and locals at return
    result           \* what the last call returned or raised

vars == <<movies, ratings, built, sim_index, title_to_index, cf_bundle, call, result>>

(***************************** bounds **************************************)
\* recommend_for_user's default min_ratings_per_item.
DefaultMinRatings == 5
\* Longest catalog (rows of movies_df) the content runs enumerate.
MaxMovies == 3
\* Most rating events (rows of ratings_df) the collaborative runs enumerate.
MaxEvents == 5
\* top_n ranges over -1 .. MaxTopN and k over -1 .. MaxTopN + 1.
MaxTopN == 2
\* Resolution of a cosine similarity: 1.0 is SimScale.
SimScale == 64

(***************************** helpers *************************************)
Range(s) == {s[i] : i \in DOMAIN s}

Abs(x) == IF x < 0 THEN -x ELSE x

Sgn(x) == IF x < 0 THEN -1 ELSE IF x = 0 THEN 0 ELSE 1

Min(a, b) == IF a <= b THEN a ELSE b

Max(a, b) == IF a >= b THEN a ELSE b

RECURSIVE Gcd(_, _)
Gcd(a, b) == IF b = 0 THEN a ELSE Gcd(b, a % b)

RECURSIVE SumSet(_, _)
\* Sum of f[x] over the finite set S.
SumSet(f, S) ==
    IF S = {} THEN 0
    ELSE LET x == CHOOSE y \in S : TRUE IN f[x] + SumSet(f, S \ {x})

\* The rational n/d (d # 0) in lowest terms with a positive denominator.
Rat(n, d) ==
    LET g == Gcd(Abs(n), Abs(d))
        s == IF d < 0 THEN -1 ELSE 1
    IN  <<(s * n) \div g, (s * d) \div g>>

RatInt(n) == <<n, 1>>

RatAdd(p, q) == Rat(p[1] * q[2] + q[1] * p[2], p[2] * q[2])

RatSub(p, q) == Rat(p[1] * q[2] - q[1] * p[2], p[2] * q[2])

RatMulInt(p, n) == Rat(p[1] * n, p[2])

RatLess(p, q) == p[1] * q[2] < q[1] * p[2]

\* Python's s[:n]: the first n elements, or all but the last -n when n < 0.
SliceTo(s, n) ==
    IF n >= 0 THEN SubSeq(s, 1, Min(n, Len(s)))
    ELSE SubSeq(s, 1, Max(Len(s) + n, 0))

RECURSIVE Perms(_)
\* The sequences that list every element of the finite set S once.
Perms(S) ==
    IF S = {} THEN {<<>>}
    ELSE UNION {{<<x>> \o p : p \in Perms(S \ {x})} : x \in S}

\* np.argsort(-v) of an array v over the indices 0..n-1: the indices by
\* descending value.  The default kind is not stable, so equal values come
\* in any order: the set of the orders argsort may return.
ArgsortDesc(v) ==
    {p \in Perms(DOMAIN v) :
        \A i \in 1..(Len(p) - 1) : v[p[i]] >= v[p[i + 1]]}

\* The largest s in 0..SimScale with (s / SimScale)^2 <= num / den, for
\* 0 <= num <= den, den > 0: the square root of num/den in fixed point.
RECURSIVE SqrtDown(_, _, _)
SqrtDown(num, den, s) ==
    IF s * s * den <= SimScale * SimScale * num THEN s
    ELSE SqrtDown(num, den, s - 1)

\* The dot product of two vectors given as functions from a coordinate to a
\* number; a coordinate one of them lacks counts as 0 (a sparse row).
Dot(a, b) ==
    LET both == DOMAIN a \cap DOMAIN b
    IN  SumSet([c \in both |-> a[c] * b[c]], both)

\* sklearn.metrics.pairwise.cosine_similarity for one pair of rows: both are
\* L2-normalised (a zero row is left as it is) and multiplied.
Cosine(a, b) ==
    LET d  == Dot(a, b)
        na == Dot(a, a)
        nb == Dot(b, b)
    IN  IF na = 0 \/ nb = 0 \/ d = 0 THEN 0
        ELSE LET q == Rat(d * d, na * nb)
             IN  Sgn(d) * SqrtDown(q[1], q[2], SimScale)

(************************* strings of the genres column ********************)
NaN == <<"nan">>

NoGenresListed ==
    <<"(", "n", "o", " ", "g", "e", "n", "r", "e", "s", " ",
      "l", "i", "s", "t", "e", "d", ")">>

RECURSIVE LStrip(_)
LStrip(s) == IF s # <<>> /\ Head(s) = " " THEN LStrip(Tail(s)) ELSE s

RECURSIVE RStrip(_)
RStrip(s) ==
    IF s # <<>> /\ s[Len(s)] = " " THEN RStrip(SubSeq(s, 1, Len(s) - 1)) ELSE s

\* str.strip()
Strip(s) == RStrip(LStrip(s))

RECURSIVE SplitFrom(_, _, _)
\* str.split(sep) with the piece under construction in cur.
SplitFrom(s, sep, cur) ==
    IF s = <<>> THEN <<cur>>
    ELSE IF Head(s) = sep THEN <<cur>> \o SplitFrom(Tail(s), sep, <<>>)
    ELSE SplitFrom(Tail(s), sep, Append(cur, Head(s)))

Split(s, sep) == SplitFrom(s, sep, <<>>)

(************************* src/src/content_based.py ************************)
\* _parse_genres without its test for the sentinel.
parse_genres_no_sentinel(genre_str) ==
    IF genre_str = NaN \/ Strip(genre_str) = <<>> THEN <<>>
    ELSE Split(genre_str, "|")

\* _parse_genres: the list of tags of one genres cell.
_parse_genres(genre_str) ==
    IF genre_str = NaN \/ Strip(genre_str) = <<>> THEN <<>>
    ELSE IF genre_str = NoGenresListed THEN <<>>
    ELSE Split(genre_str, "|")

\* movies["genres"].apply(_parse_genres), by 0-based row.
genre_list(movies_df) ==
    [i \in 0..(Len(movies_df) - 1) |-> _parse_genres(movies_df[i + 1].genres)]

\* MultiLabelBinarizer.classes_: every tag of the catalog.  The order of the
\* columns does not enter a cosine, so the classes are kept as a set.
mlb_classes(movies_df) ==
    UNION {Range(genre_list(movies_df)[i]) : i \in 0..(Len(movies_df) - 1)}

\* mlb.fit_transform: one 0/1 vector over the classes per movie.
genre_features(movies_df) ==
    LET gl == genre_list(movies_df)
        cl == mlb_classes(movies_df)
    IN  [i \in 0..(Len(movies_df) - 1) |->
            [c \in cl |-> IF c \in Range(gl[i]) THEN 1 ELSE 0]]

\* cosine_similarity(X): all pairs of rows of X.
cosine_similarity(X) ==
    [i \in DOMAIN X |-> [j \in DOMAIN X |-> Cosine(X[i], X[j])]]

\* pd.Series(movies.index.values, index=movies["title"]).to_dict(): of the
\* rows that carry a title, the last one is kept.
title_index_dict(movies_df) ==
    [t \in {movies_df[i].title : i \in 1..Len(movies_df)} |->
        CHOOSE i \in 0..(Len(movies_df) - 1) :
            /\ movies_df[i + 1].title = t
            /\ \A j \in 0..(Len(movies_df) - 1) :
                   movies_df[j + 1].title = t => j <= i]

\* fit_content_model.  cosine_similarity validates its input and raises
\* ValueError for an array without rows or without columns (a catalog in
\* which no movie has a tag).
fit_content_model(movies_df) ==
    IF Len(movies_df) = 0 \/ mlb_classes(movies_df) = {}
    THEN [error |-> "ValueError", sim_index |-> <<>>, title_to_index |-> <<>>]
    ELSE [error |-> "none",
          sim_index |-> cosine_similarity(genre_features(movies_df)),
          title_to_index |-> title_index_dict(movies_df)]

\* The comprehension without its filter: the queried movie stays.
DropIndexKeepsAll(s, idx) == s

\* [i for i in similar_indices if i != idx]
RECURSIVE DropIndex(_, _)
DropIndex(s, idx) ==
    IF s = <<>> THEN <<>>
    ELSE IF Head(s) = idx THEN DropIndex(Tail(s), idx)
    ELSE <<Head(s)>> \o DropIndex(Tail(s), idx)

\* recommend_by_title, lines 27-34, once the title is known to be a key;
\* argsorted is what np.argsort(-sims) returned.
by_title_table(title, argsorted, t2i, movies_df, top_n) ==
    LET idx == t2i[title]
        similar_indices == SliceTo(DropIndex(argsorted, idx), top_n)
    IN  [error   |-> "none",
         columns |-> <<"rank", "movieId", "title", "genres">>,
         rows    |-> [r \in 1..Len(similar_indices) |->
                        [rank    |-> r,
                         movieId |-> movies_df[similar_indices[r] + 1].movieId,
                         title   |-> movies_df[similar_indices[r] + 1].title,
                         genres  |-> movies_df[similar_indices[r] + 1].genres]]]

\* A call that raised.
Raised(exc) == [error |-> exc, columns |-> <<>>, rows |-> <<>>]

\* An empty table returned where line 26 raises.
title_not_found_empty(title) ==
    [error |-> "none", columns |-> <<"rank", "movieId", "title", "genres">>,
     rows |-> <<>>]

\* Lines 56-57: raise ValueError(f"User {user_id} not found.")
user_not_found(user_id) == Raised("ValueError")

\* Lines 25-26: raise ValueError(f"Title '{title}' not found.")
title_not_found(title) == Raised("ValueError")

\* The locals of a call that has none to show: it raised before line 27 (line
\* 59), or it was a build.
NoLocals ==
    [idx |-> -1, neighbor_idx |-> <<>>, rated_items |-> {}, cand_items |-> <<>>,
     argsort_in |-> <<>>, argsort_out |-> <<>>]

(************************* objects and writes ******************************)
\* The object a name of recommend_by_title or recommend_for_user is bound to.
\* A parameter, and a value read out of the cf_bundle dict (lines 50-54), is
\* the caller's object; sims = sim_index[idx] (content_based.py:28) is basic
\* indexing, a view of row idx.  Every other name is bound to an object the
\* call made: getrow, cosine_similarity, -sims, np.argsort, fancy indexing
\* (mat[neighbor_idx], user_means[neighbor_idx]), set(), list(), groupby ...
\* reset_index, merge, iloc[...][[...]] and reset_index(drop=True) all return
\* a new object.
object_of(name) ==
    CASE name \in {"sim_index", "title_to_index", "movies_df", "ratings_df"} -> name
      [] name = "sims"  -> "sim_index[idx]"
      [] name \in {"mat", "user_means", "user_id_to_idx", "idx_to_movie_id"} -> name
      [] name = "mat_c" -> "mat_centered"
      [] OTHER -> "local"

\* A write: the name it goes through, its kind, and for a setitem the index
\* and the value stored.
Write(name, kind, index, value) ==
    [name |-> name, kind |-> kind, index |-> index, value |-> value]

\* The rank column put into the catalog itself instead of into recs.
writes_by_title_into_catalog(n_rows) == {Write("movies_df", "insert", 0, n_rows)}

\* The in-place writes of recommend_by_title: line 33, recs.insert(0, "rank",
\* range(1, len(recs) + 1)).
writes_by_title(n_rows) == {Write("recs", "insert", 0, n_rows)}

\* The in-place writes of recommend_for_user: line 64 sims_all[u_idx] = 0.0,
\* line 79 cand_items.update; on the fallback path line 94 merged.insert,
\* otherwise line 116 preds.append, line 121 preds.sort, line 128
\* recs.insert.
writes_for_user(u_idx, fallback, n_rows) ==
    {Write("sims_all", "setitem", u_idx, 0), Write("cand_items", "update", 0, 0)}
    \cup (IF fallback
          THEN {Write("merged", "insert", 0, n_rows)}
          ELSE {Write("preds", "append", 0, 0), Write("preds", "sort", 0, 0),
                Write("recs", "insert", 0, n_rows)})

\* The value of object obj after the writes: a setitem stores at its index,
\* an insert gives every row of a frame the new column; any other write to
\* it leaves an object that is no longer the one that was built.
object_after(obj, value, writes) ==
    LET ws == {w \in writes : object_of(w.name) = obj}
    IN  IF ws = {} THEN value
        ELSE IF \A w \in ws : w.kind = "setitem"
        THEN [i \in DOMAIN value |->
                IF \E w \in ws : w.index = i
                THEN (CHOOSE w \in ws : w.index = i).value
                ELSE value[i]]
        ELSE IF \A w \in ws : w.kind = "insert"
        THEN [i \in DOMAIN value |-> [rank |-> i] @@ value[i]]
        ELSE <<"written", ws>>

\* The bundle after the writes, component by component.
bundle_after(cf, writes) ==
    [mat             |-> object_after("mat", cf.mat, writes),
     mat_centered    |-> object_after("mat_centered", cf.mat_centered, writes),
     user_means      |-> object_after("user_means", cf.user_means, writes),
     user_id_to_idx  |-> object_after("user_id_to_idx", cf.user_id_to_idx, writes),
     movie_id_to_idx |-> object_after("movie_id_to_idx", cf.movie_id_to_idx, writes),
     idx_to_movie_id |-> object_after("idx_to_movie_id", cf.idx_to_movie_id, writes)]

(******************* src/src/collaborative_filtering.py ********************)
RECURSIVE UniqueFrom(_, _)
UniqueFrom(s, seen) ==
    IF s = <<>> THEN <<>>
    ELSE IF Head(s) \in seen THEN UniqueFrom(Tail(s), seen)
    ELSE <<Head(s)>> \o UniqueFrom(Tail(s), seen \cup {Head(s)})

\* Series.unique(): the distinct values in the order they first appear.
unique(s) == UniqueFrom(s, {})

RECURSIVE InsertAsc(_, _)
InsertAsc(x, s) ==
    IF s = <<>> THEN <<x>>
    ELSE IF x <= Head(s) THEN <<x>> \o s
    ELSE <<Head(s)>> \o InsertAsc(x, Tail(s))

RECURSIVE sorted(_)
\* sorted(ids): ascending.
sorted(s) == IF s = <<>> THEN <<>> ELSE InsertAsc(Head(s), sorted(Tail(s)))

\* {id: i for i, id in enumerate(ids)}
enumerate_to_idx(ids) ==
    [x \in Range(ids) |-> (CHOOSE i \in 1..Len(ids) : ids[i] = x) - 1]

\* The ids numbered in the order they first appear, without sorted().
index_order_first_seen(column) == unique(column)

\* Lines 8-11: the user ids and the movie ids, in the order that numbers them.
index_order(column) == sorted(unique(column))

Column(df, name) == [i \in 1..Len(df) |-> df[i][name]]

\* scipy's csr_matrix((data, (rows, cols)), shape): row u holds the columns
\* some entry names, each with the sum of the entries that name it.
csr_matrix(data, rows, cols, n_rows) ==
    [u \in 0..(n_rows - 1) |->
        [c \in {cols[e] : e \in {e \in DOMAIN rows : rows[e] = u}} |->
            LET es == {e \in DOMAIN rows : rows[e] = u /\ cols[e] = c}
            IN  SumSet([e \in es |-> data[e]], es)]]

\* Line 23: the sum of a row over max(1, number of its non-zero entries).
row_mean(row) ==
    Rat(SumSet(row, DOMAIN row),
        Max(1, Cardinality({c \in DOMAIN row : row[c] # 0})))

\* The centering with line 30's test as len(...) > 1: a row of one entry
\* keeps its raw rating.
center_row_skips_single(row, mean) ==
    IF Cardinality(DOMAIN row) > 1
    THEN [c \in DOMAIN row |-> RatSub(RatInt(row[c]), mean)]
    ELSE [c \in DOMAIN row |-> RatInt(row[c])]

\* Lines 25-32: a row with the user's mean subtracted from its stored entries.
center_row(row, mean) ==
    [c \in DOMAIN row |-> RatSub(RatInt(row[c]), mean)]

fit_cf_model(ratings_df) ==
    LET user_id_to_idx  == enumerate_to_idx(index_order(Column(ratings_df, "userId")))
        movie_id_to_idx == enumerate_to_idx(index_order(Column(ratings_df, "movieId")))
        rows == [e \in 1..Len(ratings_df) |-> user_id_to_idx[ratings_df[e].userId]]
        cols == [e \in 1..Len(ratings_df) |-> movie_id_to_idx[ratings_df[e].movieId]]
        data == Column(ratings_df, "rating")
        mat  == csr_matrix(data, rows, cols, Cardinality(DOMAIN user_id_to_idx))
        user_means == [u \in DOMAIN mat |-> row_mean(mat[u])]
    IN  [mat             |-> mat,
         mat_centered    |-> [u \in DOMAIN mat |-> center_row(mat[u], user_means[u])],
         user_means      |-> user_means,
         user_id_to_idx  |-> user_id_to_idx,
         movie_id_to_idx |-> movie_id_to_idx,
         idx_to_movie_id |-> [i \in Range(movie_id_to_idx) |->
                                CHOOSE mid \in DOMAIN movie_id_to_idx :
                                    movie_id_to_idx[mid] = i]]

RECURSIVE LcmSet(_)
LcmSet(S) ==
    IF S = {} THEN 1
    ELSE LET x == CHOOSE y \in S : TRUE
             l == LcmSet(S \ {x})
         IN  (x * l) \div Gcd(x, l)

\* A row of rationals times the common denominator of its entries: a cosine
\* does not change when a row is multiplied by a positive number.
ScaleRow(row) ==
    LET l == LcmSet({row[c][2] : c \in DOMAIN row})
    IN  [c \in DOMAIN row |-> row[c][1] * (l \div row[c][2])]

\* _top_k_similar_users: the cosine of the target row with every row of the
\* matrix, the target's own included (k is not used).
_top_k_similar_users(target_vec, user_matrix_centered, k) ==
    [v \in DOMAIN user_matrix_centered |->
        Cosine(ScaleRow(target_vec), ScaleRow(user_matrix_centered[v]))]

\* Lines 63-64: the similarities with the target's own set to 0.0.
sims_all(cf, u_idx, k) ==
    [_top_k_similar_users(cf.mat_centered[u_idx], cf.mat_centered, k)
        EXCEPT ![u_idx] = 0]

RECURSIVE SetToAscSeq(_)
SetToAscSeq(S) ==
    IF S = {} THEN <<>>
    ELSE LET x == CHOOSE y \in S : \A z \in S : y <= z
         IN  <<x>> \o SetToAscSeq(S \ {x})

\* The candidates without the subtraction of rated_items.
cand_items_keeps_rated(mat, neighbor_idx, rated_items) ==
    SetToAscSeq(UNION {DOMAIN mat[neighbor_idx[j]] : j \in DOMAIN neighbor_idx})

\* Lines 77-80: the items the neighbours rated, less the target's.  list() of
\* a set of small ints walks it in ascending order.
cand_items_of(mat, neighbor_idx, rated_items) ==
    SetToAscSeq(UNION {DOMAIN mat[neighbor_idx[j]] : j \in DOMAIN neighbor_idx}
                \ rated_items)

RECURSIVE RatSum(_, _)
RatSum(f, S) ==
    IF S = {} THEN RatInt(0)
    ELSE LET x == CHOOSE y \in S : TRUE IN RatAdd(f[x], RatSum(f, S \ {x}))

\* Whether key a sorts strictly before key b when sorting descending by the
\* first component, then the second (each a rational).
KeyBefore(a, b) ==
    \/ RatLess(b[1], a[1])
    \/ a[1] = b[1] /\ RatLess(b[2], a[2])

RECURSIVE InsertDesc(_, _)
\* x into the descending list s, behind every element that does not sort
\* after it: the sort is stable.
InsertDesc(s, x) ==
    IF s = <<>> THEN <<x>>
    ELSE IF KeyBefore(x.key, Head(s).key) THEN <<x>> \o s
    ELSE <<Head(s)>> \o InsertDesc(Tail(s), x)

RECURSIVE SortDesc(_)
\* A stable descending sort of records by their key field.
SortDesc(s) ==
    IF s = <<>> THEN <<>>
    ELSE InsertDesc(SortDesc(SubSeq(s, 1, Len(s) - 1)), s[Len(s)])

RECURSIVE MergeLeft(_, _)
\* left.merge(movies_df, on="movieId", how="left"): each left row with every
\* catalog row of its movieId, or with NaN cells when there is none.
MergeLeft(left, movies_df) ==
    IF left = <<>> THEN <<>>
    ELSE LET l == Head(left)
             hits == SelectSeq(movies_df, LAMBDA m : m.movieId = l.movieId)
         IN  (IF hits = <<>>
              THEN <<[l EXCEPT !.title = "nan", !.genres = NaN]>>
              ELSE [h \in 1..Len(hits) |->
                      [l EXCEPT !.title = hits[h].title, !.genres = hits[h].genres]])
             \o MergeLeft(Tail(left), movies_df)

\* insert(0, "rank", range(1, len + 1)) and the selection of the columns.
RankedRows(rows, columns) ==
    [r \in 1..Len(rows) |->
        [c \in Range(columns) |-> IF c = "rank" THEN r ELSE rows[r][c]]]

PrimaryColumns == <<"rank", "movieId", "title", "genres", "predicted_rating">>

FallbackColumns ==
    <<"rank", "movieId", "title", "genres", "predicted_rating", "num_ratings">>

\* Lines 84-96: the popularity fallback.
popular_table(movies_df, ratings_df, top_n, min_ratings_per_item) ==
    LET ids == SetToAscSeq(Range(Column(ratings_df, "movieId")))
        grp(mid) == {e \in DOMAIN ratings_df : ratings_df[e].movieId = mid}
        agg == [i \in 1..Len(ids) |->
                  LET es == grp(ids[i])
                      mean == Rat(SumSet([e \in es |-> ratings_df[e].rating], es),
                                  Cardinality(es))
                  IN  [movieId |-> ids[i], title |-> "nan", genres |-> NaN,
                       predicted_rating |-> mean, num_ratings |-> Cardinality(es),
                       key |-> <<mean, RatInt(Cardinality(es))>>]]
        kept == SelectSeq(agg, LAMBDA g : g.num_ratings >= min_ratings_per_item)
        popular == SliceTo(SortDesc(kept), top_n)
    IN  [error   |-> "none",
         columns |-> FallbackColumns,
         rows    |-> RankedRows(MergeLeft(popular, movies_df), FallbackColumns)]

\* Lines 106-107: the neighbours (by position in neighbor_idx) whose rating
\* of item i is positive.
rated_by(cf, neighbor_idx, i) ==
    {j \in DOMAIN neighbor_idx :
        i \in DOMAIN cf.mat[neighbor_idx[j]] /\ cf.mat[neighbor_idx[j]][i] > 0}

\* Lines 110-115: r_hat of candidate item i over the neighbours in mask.
r_hat_of(cf, u_idx, neighbor_idx, neighbor_sims, i, mask) ==
    LET num == RatSum([j \in mask |->
                         RatMulInt(RatSub(RatInt(cf.mat[neighbor_idx[j]][i]),
                                          cf.user_means[neighbor_idx[j]]),
                                   neighbor_sims[j])], mask)
        den == SumSet([j \in mask |-> Abs(neighbor_sims[j])], mask)
    IN  \* den + denom_eps: 1e-8 is below the resolution of the similarities
        \* and decides only the quotient over a zero sum, which is 0 / 1e-8.
        IF den = 0 THEN cf.user_means[u_idx]
        ELSE RatAdd(cf.user_means[u_idx], Rat(num[1], num[2] * den))

RECURSIVE preds_of(_, _, _, _, _)
\* Lines 102-116: the list preds after the loop over cand_items.
preds_of(cf, u_idx, neighbor_idx, neighbor_sims, cand_items) ==
    IF cand_items = <<>> THEN <<>>
    ELSE LET i == Head(cand_items)
             mask == rated_by(cf, neighbor_idx, i)
             r_hat == r_hat_of(cf, u_idx, neighbor_idx, neighbor_sims, i, mask)
             rest == preds_of(cf, u_idx, neighbor_idx, neighbor_sims, Tail(cand_items))
         IN  IF mask = {} THEN rest
             ELSE <<[movieId |-> cf.idx_to_movie_id[i], title |-> "nan",
                     genres |-> NaN, predicted_rating |-> r_hat,
                     key |-> <<r_hat, RatInt(0)>>]>> \o rest

\* Lines 118-130: the table of the neighbour predictions.
primary_table(preds, movies_df, top_n) ==
    IF preds = <<>> THEN [error |-> "none", columns |-> PrimaryColumns, rows |-> <<>>]
    ELSE [error   |-> "none",
          columns |-> PrimaryColumns,
          rows    |-> RankedRows(MergeLeft(SliceTo(SortDesc(preds), top_n), movies_df),
                                 PrimaryColumns)]

\* Lines 66-130 of recommend_for_user for a user of the bundle; argsorted is
\* what np.argsort(-sims_all) returned.  The locals at return go with the
\* table.
for_user_frame(u_idx, argsorted, sims, cf, movies_df, ratings_df, top_n, k, min_r) ==
    LET neighbor_idx  == SliceTo(argsorted, k)
        neighbor_sims == [j \in DOMAIN neighbor_idx |-> sims[neighbor_idx[j]]]
        rated_items   == DOMAIN cf.mat[u_idx]
        cand_items    == cand_items_of(cf.mat, neighbor_idx, rated_items)
    IN  [locals |-> [idx |-> u_idx, neighbor_idx |-> neighbor_idx,
                     rated_items |-> rated_items, cand_items |-> cand_items,
                     argsort_in |-> sims, argsort_out |-> argsorted],
         table  |-> IF cand_items = <<>>
                    THEN popular_table(movies_df, ratings_df, top_n, min_r)
                    ELSE primary_table(preds_of(cf, u_idx, neighbor_idx, neighbor_sims,
                                                cand_items),
                                       movies_df, top_n)]

(***************************** inputs **************************************)
Action == <<"A", "c", "t", "i", "o", "n">>

Comedy == <<"C", "o", "m", "e", "d", "y">>

\* The genres cells the runs draw from: empty, blank, the sentinel, a missing
\* cell, one tag, two tags.
GenreStrings ==
    {<<>>, <<" ">>, NoGenresListed, NaN, Action, Comedy, Action \o <<"|">> \o Comedy}

Titles == {"A (2000)", "B (2001)"}

\* A title no catalog of the runs holds.
MissingTitle == "Z (1999)"

\* The movieId of the catalog's i-th row (i from 1).
CatalogId(i) == 10 * i

\* The (title, genres) rows the catalogs are made of: the first title with
\* every genres cell, the second with a tagged and an untagged one.
MovieRows ==
    ({"A (2000)"} \X GenreStrings) \cup ({"B (2001)"} \X {Action, Comedy, NoGenresListed})

\* Every catalog of 1..MaxMovies rows of MovieRows.
Catalogs ==
    UNION {{[i \in 1..n |-> [movieId |-> CatalogId(i), title |-> c[i][1], genres |-> c[i][2]]] :
              c \in [1..n -> MovieRows]} : n \in 1..MaxMovies}

\* The catalog of the specification's worked example, on the ids the rating
\* events use.
ExampleCatalog ==
    <<[movieId |-> 10, title |-> "A (2000)", genres |-> Action \o <<"|">> \o Comedy],
      [movieId |-> 20, title |-> "B (2001)", genres |-> Action],
      [movieId |-> 30, title |-> "C (2002)", genres |-> Comedy]>>

Event(u, m, r) == [userId |-> u, movieId |-> m, rating |-> r]

\* The rating events of the specification's worked example.
ExampleRatings ==
    <<Event(1, 10, 5), Event(1, 20, 3), Event(2, 10, 4), Event(2, 20, 2), Event(3, 10, 1)>>

TopNs == -1..MaxTopN

\* The neighbour counts k: up to one more than there are users.
Ks == -1..(MaxTopN + 1)

\* min_ratings_per_item: 1 and the default.
MinRatings == {1, DefaultMinRatings}

\* A user id no rating event carries.
MissingUserIds == {999}

UserIds == {1, 2}

\* The user ids the calls ask for: those of the tables, the third user of
\* the worked examples and the missing one.
QueryUserIds == UserIds \cup {3} \cup MissingUserIds

MovieIds == {10, 20, 30}

RatingValues == {1, 5}

RECURSIVE KeysAsc(_)
\* The (userId, movieId) pairs of K in ascending order.
KeysAsc(K) ==
    IF K = {} THEN <<>>
    ELSE LET x == CHOOSE y \in K :
                    \A z \in K : y[1] < z[1] \/ (y[1] = z[1] /\ y[2] <= z[2])
         IN  <<x>> \o KeysAsc(K \ {x})

Reverse(s) == [i \in 1..Len(s) |-> s[Len(s) + 1 - i]]

\* Every table of 1..MaxEvents rating events, one per (userId, movieId),
\* listed by ascending key.
RatingTables ==
    LET Keys == {K \in SUBSET (UserIds \X MovieIds) :
                    Cardinality(K) \in 1..MaxEvents}
    IN  UNION {{[i \in 1..Cardinality(K) |->
                   Event(KeysAsc(K)[i][1], KeysAsc(K)[i][2], f[KeysAsc(K)[i]])] :
                 f \in [K -> RatingValues]} : K \in Keys}

\* Three users, listed out of id order: user 1 and user 3 agree, user 2 is
\* opposed to both.
OpposedRatings ==
    <<Event(3, 10, 5), Event(3, 20, 1),
      Event(1, 20, 2), Event(1, 10, 4),
      Event(2, 10, 1), Event(2, 20, 5), Event(2, 30, 5)>>

\* The rating tables the runs start from.
RatingInputs ==
    RatingTables \cup {ExampleRatings, Reverse(ExampleRatings), OpposedRatings}

(***************************** actions *************************************)
NoCall == [op |-> "none", args |-> <<>>, locals |-> NoLocals, repeated |-> FALSE]

NoBundle ==
    [mat |-> <<>>, mat_centered |-> <<>>, user_means |-> <<>>, user_id_to_idx |-> <<>>,
     movie_id_to_idx |-> <<>>, idx_to_movie_id |-> <<>>]

\* The session calls fit_content_model(movies_df) (app.py, _fit_content).
FitContentModel ==
    LET r == fit_content_model(movies)
    IN  /\ call.op = "none"
        /\ movies # <<>>
        /\ call' = [op |-> "fit_content_model", args |-> <<>>, locals |-> NoLocals,
                    repeated |-> FALSE]
        /\ result' = Raised(r.error)
        /\ IF r.error = "none"
           THEN /\ sim_index' = r.sim_index
                /\ title_to_index' = r.title_to_index
                /\ built' = built \cup {"content"}
           ELSE UNCHANGED <<sim_index, title_to_index, built>>
        /\ UNCHANGED <<movies, ratings, cf_bundle>>

\* One run of recommend_by_title(title, sim_index, title_to_index, movies_df,
\* top_n): what it returns or raises, and what its writes leave of the
\* objects it was given.  known holds what np.argsort returned before
\* (argsort_out) and for which array (argsort_in).
recommend_by_title(title, top_n, known, repeated) ==
    /\ "content" \in built
    /\ IF title \notin DOMAIN title_to_index
       THEN /\ result' = title_not_found(title)
            /\ call' = [op |-> "recommend_by_title",
                        args |-> [title |-> title, top_n |-> top_n],
                        locals |-> NoLocals, repeated |-> repeated]
            /\ UNCHANGED <<movies, sim_index, title_to_index>>
       ELSE LET idx  == title_to_index[title]
                sims == sim_index[idx]
            IN  \E argsorted \in ArgsortDesc(sims) :
                LET table  == by_title_table(title, argsorted, title_to_index,
                                             movies, top_n)
                    writes == writes_by_title(Len(result'.rows))
                IN  /\ known.argsort_in = sims => argsorted = known.argsort_out
                    /\ result' = table
                    /\ call' = [op |-> "recommend_by_title",
                                args |-> [title |-> title, top_n |-> top_n],
                                locals |-> [NoLocals EXCEPT !.idx = idx,
                                                !.argsort_in = sims,
                                                !.argsort_out = argsorted],
                                repeated |-> repeated]
                    /\ movies' = object_after("movies_df", movies, writes)
                    /\ sim_index' =
                           [object_after("sim_index", sim_index, writes) EXCEPT
                               ![idx] = object_after("sim_index[idx]", @, writes)]
                    /\ title_to_index' =
                           object_after("title_to_index", title_to_index, writes)
    /\ UNCHANGED <<ratings, built, cf_bundle>>

\* The session calls recommend_by_title (app.py, content tab).
RecommendByTitle(title, top_n) ==
    /\ call.op = "none"
    /\ recommend_by_title(title, top_n, NoLocals, FALSE)

\* The session makes the call it has just made once more, with the same
\* arguments (app.py: the script runs again with the widgets as they are).
RepeatByTitle ==
    /\ call.op = "recommend_by_title"
    /\ ~call.repeated
    /\ recommend_by_title(call.args.title, call.args.top_n, call.locals, TRUE)

\* The session calls fit_cf_model(ratings_df) (app.py, _fit_cf).
FitCfModel ==
    /\ call.op = "none"
    /\ ratings # <<>>
    /\ call' = [op |-> "fit_cf_model", args |-> <<>>, locals |-> NoLocals,
                repeated |-> FALSE]
    /\ result' = Raised("none")
    /\ cf_bundle' = fit_cf_model(ratings)
    /\ built' = built \cup {"cf"}
    /\ UNCHANGED <<movies, ratings, sim_index, title_to_index>>

\* One run of recommend_for_user(user_id, cf_bundle, movies_df, ratings_df,
\* top_n, k, min_ratings_per_item) with top_n, k and min_ratings_per_item
\* drawn from the sets given: what it returns or raises, and what its writes
\* leave of the objects it was given.
recommend_for_user(user_id, top_ns, ks, ms, known, repeated) ==
    /\ "cf" \in built
    /\ IF user_id \notin DOMAIN cf_bundle.user_id_to_idx
       THEN \E top_n \in top_ns, k \in ks, m \in ms :
            /\ result' = user_not_found(user_id)
            /\ call' = [op |-> "recommend_for_user",
                        args |-> [user_id |-> user_id, top_n |-> top_n, k |-> k,
                                  min_ratings_per_item |-> m],
                        locals |-> NoLocals, repeated |-> repeated]
            /\ UNCHANGED <<movies, ratings, cf_bundle>>
       ELSE LET u_idx == cf_bundle.user_id_to_idx[user_id]
                sims  == sims_all(cf_bundle, u_idx, 0)
            IN  \E argsorted \in ArgsortDesc(sims) :
                /\ known.argsort_in = sims => argsorted = known.argsort_out
                /\ \E top_n \in top_ns, k \in ks, m \in ms :
                   LET f == for_user_frame(u_idx, argsorted, sims, cf_bundle,
                                           movies, ratings, top_n, k, m)
                       writes == writes_for_user(u_idx, call'.locals.cand_items = <<>>,
                                                 Len(result'.rows))
                   IN  /\ result' = f.table
                       /\ call' = [op |-> "recommend_for_user",
                                   args |-> [user_id |-> user_id, top_n |-> top_n,
                                             k |-> k, min_ratings_per_item |-> m],
                                   locals |-> f.locals, repeated |-> repeated]
                       /\ movies' = object_after("movies_df", movies, writes)
                       /\ ratings' = object_after("ratings_df", ratings, writes)
                       /\ cf_bundle' = bundle_after(cf_bundle, writes)
    /\ UNCHANGED <<built, sim_index, title_to_index>>

\* The session calls recommend_for_user (app.py, collaborative tab).
RecommendForUser(user_id) ==
    /\ call.op = "none"
    /\ recommend_for_user(user_id, TopNs, Ks, MinRatings, NoLocals, FALSE)

\* The session makes the call it has just made once more, with the same
\* arguments.
RepeatForUser ==
    /\ call.op = "recommend_for_user"
    /\ ~call.repeated
    /\ recommend_for_user(call.args.user_id, {call.args.top_n}, {call.args.k},
                          {call.args.min_ratings_per_item}, call.locals, TRUE)

\* The script run ends: the table is shown (or the exception reported) and
\* the session waits for the next request; the cached artifacts stay.
Rerun ==
    /\ call.op # "none"
    /\ call' = NoCall
    /\ result' = Raised("none")
    /\ UNCHANGED <<movies, ratings, built, sim_index, title_to_index, cf_bundle>>

InitArtifacts ==
    /\ built = {}
    /\ sim_index = <<>>
    /\ title_to_index = <<>>
    /\ cf_bundle = NoBundle
    /\ call = NoCall
    /\ result = Raised("none")

InitContent ==
    /\ movies \in Catalogs
    /\ ratings = <<>>
    /\ InitArtifacts

NextContent ==
    \/ FitContentModel
    \/ \E title \in Titles \cup {MissingTitle}, top_n \in TopNs :
           RecommendByTitle(title, top_n)
    \/ Rerun

\* The content pipeline over every catalog of the bounds.
SpecContent == InitContent /\ [][NextContent]_vars

InitCF ==
    /\ movies = ExampleCatalog
    /\ ratings \in RatingInputs
    /\ InitArtifacts

NextCF ==
    \/ FitCfModel
    \/ \E user_id \in QueryUserIds : RecommendForUser(user_id)
    \/ Rerun

\* The collaborative pipeline over every rating table of the bounds.
SpecCF == InitCF /\ [][NextCF]_vars

Init == InitContent \/ InitCF

Next ==
    \/ FitContentModel
    \/ \E title \in Titles \cup {MissingTitle}, top_n \in TopNs :
           RecommendByTitle(title, top_n)
    \/ FitCfModel
    \/ \E user_id \in QueryUserIds : RecommendForUser(user_id)
    \/ Rerun

\* Both pipelines in one session.
Spec == Init /\ [][Next]_vars

NextRepeat ==
    \/ FitContentModel
    \/ \E title \in Titles \cup {MissingTitle}, top_n \in TopNs :
           RecommendByTitle(title, top_n)
    \/ RepeatByTitle
    \/ FitCfModel
    \/ \E user_id \in QueryUserIds : RecommendForUser(user_id)
    \/ RepeatForUser
    \/ Rerun

\* Both pipelines in one session that also makes calls a second time.
SpecRepeat == Init /\ [][NextRepeat]_vars

(***************************** claims **************************************)
\* The last call was recommend_by_title and returned a table.
ByTitleReturned == call.op = "recommend_by_title" /\ result.error = "none"

\* The last call was recommend_for_user and returned a table.
ForUserReturned == call.op = "recommend_for_user" /\ result.error = "none"

\* C2 (as claimed): for every catalog, duplicate titles included, every
\* title t of the title map and every N >= 1, no row that
\* recommend_by_title(t, ...) returns has title t.
C2_NoRowHasQueriedTitle ==
    (ByTitleReturned /\ call.args.top_n >= 1) =>
        \A r \in DOMAIN result.rows : result.rows[r].title # call.args.title

\* C3: for a catalog of M >= 1 movies, a title of the title map and a
\* positive N, recommend_by_title returns exactly min(N, M - 1) rows, ranked
\* 1..min(N, M - 1) in order; a one-movie catalog gives an empty table.
C3_ByTitleLength ==
    (ByTitleReturned /\ call.args.top_n >= 1) =>
        /\ Len(result.rows) = Min(call.args.top_n, Len(movies) - 1)
        /\ \A r \in DOMAIN result.rows : result.rows[r].rank = r

\* C3's case: a one-movie catalog answered with an empty table, and a
\* longer catalog cut to N rows.
C3_Witness ==
    /\ ByTitleReturned
    /\ call.args.top_n >= 1
    /\ \/ Len(movies) = 1 /\ result.rows = <<>>
       \/ Len(movies) = 3 /\ call.args.top_n = 1 /\ Len(result.rows) = 1

\* Row i of the catalog has no genre tag (its feature vector is all zeros):
\* the cell is missing, holds nothing but spaces, or is the sentinel.
Untagged(i) ==
    LET g == movies[i + 1].genres
    IN  g = NaN \/ g = NoGenresListed \/ \A c \in DOMAIN g : g[c] = " "

\* C4 (as claimed): for every movie of the catalog, a movie without tags
\* included, the similarity index has sim(M, M) = 1 on the diagonal.
C4_DiagonalIsOne ==
    "content" \in built =>
        \A i \in 0..(Len(movies) - 1) : sim_index[i][i] = SimScale

\* C4 (amended): in a built similarity index, sim(M, M) = 1 for every movie
\* with at least one genre tag and sim(M, M) = 0 for every movie without.
C4_DiagonalOneIffTagged ==
    "content" \in built =>
        \A i \in 0..(Len(movies) - 1) :
            sim_index[i][i] = (IF Untagged(i) THEN 0 ELSE SimScale)

\* C4's case: an index built over a catalog with a tagged and an untagged
\* movie.
C4_Witness ==
    /\ "content" \in built
    /\ \E i, j \in 0..(Len(movies) - 1) :
          /\ Untagged(i) /\ sim_index[i][i] = 0
          /\ ~Untagged(j) /\ sim_index[j][j] = SimScale

\* The events of ratings_df that carry user id uid.
EventsOf(uid) == {e \in DOMAIN ratings : ratings[e].userId = uid}

\* The movie ids user uid has a rating event for.
RatedMovieIds(uid) == {ratings[e].movieId : e \in EventsOf(uid)}

\* The user id of row i of the bundle.
UserAt(i) ==
    CHOOSE u \in DOMAIN cf_bundle.user_id_to_idx : cf_bundle.user_id_to_idx[u] = i

\* The last call was recommend_for_user for a user of the bundle, and
\* returned or raised.
ForUserCalled ==
    /\ call.op = "recommend_for_user"
    /\ call.args.user_id \in DOMAIN cf_bundle.user_id_to_idx

\* C1 (as claimed): for an existing user u, N >= 1 and k >= 1, no movie that
\* recommend_for_user returns is one u has a rating event for, on the
\* neighbour-prediction path and on the popularity-fallback path alike.
C1_NoRatedMovieReturned ==
    (ForUserReturned /\ call.args.top_n >= 1 /\ call.args.k >= 1) =>
        \A r \in DOMAIN result.rows :
            result.rows[r].movieId \notin RatedMovieIds(call.args.user_id)

\* C1, the neighbour-prediction path alone (the table without num_ratings):
\* there the claim holds.
C1_NeighbourPathExcludesRated ==
    (ForUserReturned /\ result.columns = PrimaryColumns) =>
        \A r \in DOMAIN result.rows :
            result.rows[r].movieId \notin RatedMovieIds(call.args.user_id)

\* The candidate set of the last recommend_for_user call, from the rating
\* events: the movies the selected neighbours rated, less those the target
\* rated.
CandidateMovieIds ==
    UNION {RatedMovieIds(UserAt(call.locals.neighbor_idx[j])) :
             j \in DOMAIN call.locals.neighbor_idx}
    \ RatedMovieIds(call.args.user_id)

\* C5: for an existing user, recommend_for_user returns the fallback shape
\* (with num_ratings) exactly when the movies rated by the selected
\* neighbours, less those rated by the user, are none; otherwise the table
\* has the columns rank, movieId, title, genres, predicted_rating and no
\* num_ratings.
C5_FallbackIffNoCandidates ==
    ForUserReturned =>
        /\ ("num_ratings" \in Range(result.columns)) <=> (CandidateMovieIds = {})
        /\ CandidateMovieIds # {} => result.columns = PrimaryColumns
        /\ CandidateMovieIds = {} => result.columns = FallbackColumns

\* C5's case: both sides of the boundary, a fallback table with rows and a
\* primary table with rows.
C5_Witness ==
    /\ ForUserReturned
    /\ call.args.k = 1
    /\ result.rows # <<>>
    /\ CandidateMovieIds # {}
    /\ result.columns = PrimaryColumns

C5_WitnessFallback ==
    /\ ForUserReturned
    /\ call.args.k >= 1
    /\ result.rows # <<>>
    /\ CandidateMovieIds = {}
    /\ "num_ratings" \in Range(result.columns)

\* C6: recommend_for_user with a user id that is no key of user_id_to_idx,
\* and recommend_by_title with a title that is no key of title_to_index,
\* raise ValueError and return no table, whatever the other arguments.
C6_MissingKeyRaises ==
    /\ (call.op = "recommend_for_user"
        /\ call.args.user_id \notin DOMAIN cf_bundle.user_id_to_idx)
       => (result.error = "ValueError" /\ result.columns = <<>> /\ result.rows = <<>>)
    /\ (call.op = "recommend_by_title"
        /\ call.args.title \notin DOMAIN title_to_index)
       => (result.error = "ValueError" /\ result.columns = <<>> /\ result.rows = <<>>)

\* C6's case: a call with a missing user id raised.
C6_Witness ==
    /\ call.op = "recommend_for_user"
    /\ call.args.user_id \in MissingUserIds
    /\ call.args.top_n = 0
    /\ result.error = "ValueError"

\* C7 (as claimed): recommend_for_user for an existing user with N <= 0 or
\* k <= 0 fails with InvalidArgument and returns no table.
C7_NonPositiveRejected ==
    (ForUserCalled /\ (call.args.top_n <= 0 \/ call.args.k <= 0)) =>
        result.error = "InvalidArgument"

\* C8: in the bundle fit_cf_model builds, each user's mean is the arithmetic
\* mean of that user's ratings, mat_centered has exactly the positions of
\* mat, which are the rated (user, item) pairs, and each entry of
\* mat_centered is the rating less the user's mean.
C8_MeansAndCentering ==
    "cf" \in built =>
        \A u \in {ratings[e].userId : e \in DOMAIN ratings} :
            LET i    == cf_bundle.user_id_to_idx[u]
                evs  == EventsOf(u)
                mean == Rat(SumSet([e \in evs |-> ratings[e].rating], evs),
                            Cardinality(evs))
                col(e) == cf_bundle.movie_id_to_idx[ratings[e].movieId]
            IN  /\ cf_bundle.user_means[i] = mean
                /\ DOMAIN cf_bundle.mat[i] = {col(e) : e \in evs}
                /\ DOMAIN cf_bundle.mat_centered[i] = DOMAIN cf_bundle.mat[i]
                /\ \A e \in evs :
                      cf_bundle.mat_centered[i][col(e)]
                          = RatSub(RatInt(ratings[e].rating), mean)

\* C8's case: the worked example, user 1 with mean 4 and centered row
\* [+1, -1] over the items 10, 20.
C8_Witness ==
    /\ call.op = "fit_cf_model"
    /\ ratings = ExampleRatings
    /\ cf_bundle.user_means[cf_bundle.user_id_to_idx[1]] = RatInt(4)
    /\ cf_bundle.mat_centered[cf_bundle.user_id_to_idx[1]]
           = (cf_bundle.movie_id_to_idx[10] :> RatInt(1)
              @@ cf_bundle.movie_id_to_idx[20] :> RatInt(-1))

\* The rating events in the order p (a permutation of their positions).
Reordered(p) == [i \in 1..Len(ratings) |-> ratings[p[i]]]

\* C9: fit_cf_model numbers users and items from 0 by ascending id (row 0
\* is the smallest user id, column 0 the smallest movie id), whatever the
\* order the events are listed in: built from any reordering of the same
\* events, the id maps and the matrices are the same.
C9_IndexByAscendingId ==
    call.op = "fit_cf_model" =>
        /\ \A u \in DOMAIN cf_bundle.user_id_to_idx :
              cf_bundle.user_id_to_idx[u]
                  = Cardinality({v \in DOMAIN cf_bundle.user_id_to_idx : v < u})
        /\ \A m \in DOMAIN cf_bundle.movie_id_to_idx :
              cf_bundle.movie_id_to_idx[m]
                  = Cardinality({n \in DOMAIN cf_bundle.movie_id_to_idx : n < m})
        /\ DOMAIN cf_bundle.user_id_to_idx = {ratings[e].userId : e \in DOMAIN ratings}
        /\ DOMAIN cf_bundle.movie_id_to_idx = {ratings[e].movieId : e \in DOMAIN ratings}
        /\ \A p \in Perms(DOMAIN ratings) : fit_cf_model(Reordered(p)) = cf_bundle

\* C9's case: a bundle built from events that list a larger user id before
\* a smaller one and a larger movie id before a smaller one.
C9_Witness ==
    /\ call.op = "fit_cf_model"
    /\ \E a, b \in DOMAIN ratings : a < b /\ ratings[a].userId > ratings[b].userId
    /\ \E a, b \in DOMAIN ratings : a < b /\ ratings[a].movieId > ratings[b].movieId
    /\ cf_bundle.user_id_to_idx[1] = 0
    /\ cf_bundle.movie_id_to_idx[10] = 0

\* C10 (as claimed): for an existing target user and k >= 1, the target's
\* own row index is not among the selected neighbour indices.
C10_SelfNotNeighbour ==
    (ForUserCalled /\ call.args.k >= 1) =>
        call.locals.idx \notin Range(call.locals.neighbor_idx)

\* C11: a recommend_by_title or recommend_for_user call, whether it returns
\* or raises and whatever calls came before it, leaves the similarity index,
\* the title map, every component of the CF bundle, the catalog and the
\* rating events as they were; and the same call made once more returns
\* what it returned before.
C11_CallsLeaveArtifacts ==
    [][call'.op \in {"recommend_by_title", "recommend_for_user"} =>
           /\ UNCHANGED <<movies, ratings, built, sim_index, title_to_index,
                          cf_bundle>>
           /\ call'.repeated => (call'.args = call.args /\ result' = result)]_vars

\* Reached: recommend_for_user returned a table with rows, for similarities
\* that have a tie, and was then run once more.
C11_Witness ==
    /\ call.op = "recommend_for_user"
    /\ call.repeated
    /\ result.error = "none"
    /\ result.rows # <<>>
    /\ Cardinality(ArgsortDesc(call.locals.argsort_in)) > 1

\* Reached: recommend_by_title raised for a missing title and was then run
\* once more.
C11_WitnessRaised ==
    /\ call.op = "recommend_by_title"
    /\ call.repeated
    /\ result.error = "ValueError"

====
